---- MODULE Spec2Model ----
(***************************************************************************)
(* Model of the student API (app/student, app/core): the relational store  *)
(* of Student, Tag and Course rows with the two many-to-many tables, and   *)
(* one action per request handler of StudentViewSet, TagViewSet and        *)
(* CourseViewSet.  Each request is handled synchronously, so a handler is  *)
(* one atomic action; the answer of the last request is kept in resp.      *)
(***************************************************************************)
EXTENDS Integers, Sequences, FiniteSets, TLC

----------------------------------------------------------------------------
(* Bounds of the model *)

\* number of Student rows ever inserted (ids 1..MaxStudents)
MaxStudents == 2
\* number of Tag rows ever inserted
MaxTags == 2
\* number of Course rows ever inserted
MaxCourses == 2
\* number of rows ever inserted into the three tables together
MaxRows == 4
\* number of label descriptors (tags and courses together) in one payload
MaxLen == 2

----------------------------------------------------------------------------
(* Input domains *)

\* authenticated users (request.user)
Owners == {1, 2}
\* label titles; the integer order stands for the collation order of strings
Titles == {1, 2}
\* values of a free-text attribute
Vals == {1, 2}
\* the empty string, default of Student.link (blank=True)
Blank == 0
\* a query-string token that int() rejects ('a', '')
NotAnInt == 0 - 1
\* the NULL of Student.image (null=True), and the name of a stored file
NoImage == "null"
ImageFile == "file"
\* request.user of a request without a valid token
AnonymousUser == 0

Range(s) == {s[i] : i \in DOMAIN s}

SeqsUpTo(S, n) == UNION {[1..k -> S] : k \in 0..n}

\* an optional value: <<>> when absent, <<v>> when present
Opt(S) == {<<>>} \cup {<<v>> : v \in S}

Present(o) == o # <<>>

----------------------------------------------------------------------------
(* State: the database and the last response *)

VARIABLES
    students,          \* Student rows [id, user, name, link, image]
    tags,              \* Tag rows [id, user, title]
    courses,           \* Course rows [id, user, title]
    student_tags,      \* rows <<student id, tag id>> of Student.tags
    student_courses,   \* rows <<student id, course id>> of Student.courses
    next_student_id,   \* next value of the auto-increment primary keys
    next_tag_id,
    next_course_id,
    req,               \* the request being answered
    resp,              \* the response to it
    threads            \* the requests being handled concurrently, by worker

db == <<students, tags, courses, student_tags, student_courses,
        next_student_id, next_tag_id, next_course_id>>

vars == <<students, tags, courses, student_tags, student_courses,
          next_student_id, next_tag_id, next_course_id, req, resp, threads>>

----------------------------------------------------------------------------
(* Rows and lookups *)

\* image is NULL until upload_image saves a file
StudentRow(id, user, name, link) ==
    [id |-> id, user |-> user, name |-> name, link |-> link, image |-> NoImage]

LabelRow(id, user, title) == [id |-> id, user |-> user, title |-> title]

StudentById(id) == CHOOSE s \in students : s.id = id

\* the labels a relation table attaches to one student
Attached(links, sid) == {l[2] : l \in {k \in links : k[1] = sid}}

\* the tags (courses) of one student, as the nested serializer reads them
TagsOf(sid) == {l[2] : l \in {k \in student_tags : k[1] = sid}}

CoursesOf(sid) == {l[2] : l \in {k \in student_courses : k[1] = sid}}

----------------------------------------------------------------------------
(* Querysets.  A queryset is a set of joined rows; a row is a triple whose *)
(* first component is the ordering key.  Student rows are                  *)
(* <<student id, joined tag id, joined course id>>, label rows are         *)
(* <<title, label id, joined student id>>; 0 stands for "not joined".      *)

\* [int(str_id) for str_id in qs.split(',')]: ValueError on a bad token
params_to_ints(qs) ==
    IF \E i \in DOMAIN qs : qs[i] = NotAnInt
    THEN [ok |-> FALSE, ids |-> {}]
    ELSE [ok |-> TRUE, ids |-> Range(qs)]

\* queryset.filter(tags__id__in=tag_ids): inner join on the Student.tags table
filter_tags(rows, ids) ==
    {<<p[1][1], p[2][2], p[1][3]>> :
        p \in {q \in rows \X student_tags :
                  q[2][1] = q[1][1] /\ q[2][2] \in ids}}

\* queryset.filter(courses__id__in=course_ids)
filter_courses(rows, ids) ==
    {<<p[1][1], p[1][2], p[2][2]>> :
        p \in {q \in rows \X student_courses :
                  q[2][1] = q[1][1] /\ q[2][2] \in ids}}

\* the owner filter left out
filter_student_user_unscoped(rows, user) == rows

\* queryset.filter(user=self.request.user) on Student rows
filter_student_user(rows, user) ==
    {r \in rows : \E s \in students : s.id = r[1] /\ s.user = user}

\* .distinct() left out: one row per joined relation row
distinct_omitted(rows) == rows

\* .distinct(): SELECT DISTINCT over the model's own columns
distinct(rows) == {<<r[1], 0, 0>> : r \in rows}

\* .distinct() left out of the label queryset
distinct_labels_omitted(rows) == rows

\* .distinct() on a label queryset, whose own columns are title and id
distinct_labels(rows) == {<<r[1], r[2], 0>> : r \in rows}

\* the order the database gives to rows with equal keys is not specified:
\* asc tells which of the two orders by the remaining columns it takes
TieBefore(a, b, asc) ==
    LET lt == a[2] < b[2] \/ (a[2] = b[2] /\ a[3] <= b[3])
        gt == a[2] > b[2] \/ (a[2] = b[2] /\ a[3] >= b[3])
    IN IF asc THEN lt ELSE gt

RECURSIVE order_by_asc(_, _)
\* .order_by('id') / .order_by('title'): the sign of the key left out
order_by_asc(rows, asc) ==
    IF rows = {} THEN <<>>
    ELSE LET first == CHOOSE r \in rows :
                 \A o \in rows :
                     r[1] < o[1] \/ (r[1] = o[1] /\ TieBefore(r, o, asc))
         IN <<first>> \o order_by_asc(rows \ {first}, asc)

RECURSIVE order_by_desc(_, _)
\* .order_by('-id') / .order_by('-title'): descending by the key r[1]
order_by_desc(rows, asc) ==
    IF rows = {} THEN <<>>
    ELSE LET first == CHOOSE r \in rows :
                 \A o \in rows :
                     r[1] > o[1] \/ (r[1] = o[1] /\ TieBefore(r, o, asc))
         IN <<first>> \o order_by_desc(rows \ {first}, asc)

\* StudentViewSet.get_queryset: [ok, ids]; ok is FALSE when int() raised
StudentViewSet_get_queryset(user, tagsq, coursesq) ==
    LET tag_ids == params_to_ints(tagsq)
        course_ids == params_to_ints(coursesq)
        q0 == {<<s.id, 0, 0>> : s \in students}
        q1 == IF tagsq # <<>> THEN filter_tags(q0, tag_ids.ids) ELSE q0
        q2 == IF coursesq # <<>> THEN filter_courses(q1, course_ids.ids) ELSE q1
        rows == order_by_desc(distinct(filter_student_user(q2, user)), TRUE)
    IN IF (tagsq # <<>> /\ ~tag_ids.ok) \/ (coursesq # <<>> /\ ~course_ids.ok)
       THEN [ok |-> FALSE, ids |-> <<>>]
       ELSE [ok |-> TRUE, ids |-> [i \in DOMAIN rows |-> rows[i][1]]]

\* queryset.filter(student__isnull=False): inner join on the label's
\* reverse relation to Student
filter_assigned(rows, links) ==
    {<<p[1][1], p[1][2], p[2][1]>> :
        p \in {q \in rows \X links : q[2][2] = q[1][2]}}

\* the owner filter left out
filter_label_user_unscoped(rows, labels, user) == rows

\* queryset.filter(user=self.request.user) on label rows
filter_label_user(rows, labels, user) ==
    {r \in rows : \E l \in labels : l.id = r[2] /\ l.user = user}

\* BaseStudentAttrViewSet.get_queryset over the Tag or the Course table;
\* ao is the assigned_only parameter, <<>> when absent (default 0)
BaseStudentAttrViewSet_get_queryset(labels, links, user, ao, asc) ==
    LET value == IF ao = <<>> THEN 0 ELSE ao[1]
        assigned_only == value # 0
        q0 == {<<l.title, l.id, 0>> : l \in labels}
        q1 == IF assigned_only THEN filter_assigned(q0, links) ELSE q0
        rows == order_by_desc(
                    distinct_labels(filter_label_user(q1, labels, user)), asc)
    IN IF value = NotAnInt
       THEN [ok |-> FALSE, ids |-> <<>>]
       ELSE [ok |-> TRUE, ids |-> [i \in DOMAIN rows |-> rows[i][2]]]

----------------------------------------------------------------------------
(* Serializers *)

\* A Student payload: each field <<>> when absent, <<value>> when present.
\* tags and courses carry a sequence of titles ([{'title': ...}, ...]);
\* user is a field the client may send although no serializer declares it.
StudentPayload(name, link, user, tgs, crs) ==
    [name |-> name, link |-> link, user |-> user, tags |-> tgs, courses |-> crs]

\* 'user' declared among the serializer's writable fields
StudentSerializer_validated_data_with_user(p) == p

\* StudentSerializer.Meta.fields: validated_data holds the declared fields
\* only, so a 'user' key of the payload is dropped
StudentSerializer_validated_data(p) == [p EXCEPT !.user = <<>>]

\* name stands for the required attributes (name, email, address, birthday):
\* they may be missing only from a partial update (PATCH)
StudentSerializer_is_valid(p, partial) == partial \/ Present(p.name)

\* TagSerializer / CourseSerializer: fields id (read only) and title
LabelSerializer_validated_data(p) == [p EXCEPT !.user = <<>>]

LabelSerializer_is_valid(p, partial) == partial \/ Present(p.title)

\* the lookup always misses
Model_objects_get_none(rows, user, title) == {}

\* the lookup without user=auth_user
Model_objects_get_any_user(rows, user, title) == {l \in rows : l.title = title}

\* the lookup of get_or_create(user=auth_user, title=...): the matching rows
Model_objects_get(rows, user, title) ==
    {l \in rows : l.user = user /\ l.title = title}

RECURSIVE get_or_create_labels(_, _, _, _, _, _)
\* for label in labels: obj, created = Model.objects.get_or_create(
\*     user=auth_user, **label); student.<relation>.add(obj)
\* get() raises MultipleObjectsReturned when several rows match; the rows
\* written before it stay written.
get_or_create_labels(rows, next_id, links, auth_user, titles, sid) ==
    IF titles = <<>>
    THEN [ok |-> TRUE, rows |-> rows, next_id |-> next_id, links |-> links]
    ELSE LET found == Model_objects_get(rows, auth_user, Head(titles))
         IN IF Cardinality(found) > 1
            THEN [ok |-> FALSE, rows |-> rows, next_id |-> next_id,
                  links |-> links]
            ELSE LET created == found = {}
                     obj == IF created
                            THEN LabelRow(next_id, auth_user, Head(titles))
                            ELSE CHOOSE l \in found : TRUE
                 IN get_or_create_labels(
                        rows \cup {obj},
                        IF created THEN next_id + 1 ELSE next_id,
                        links \cup {<<sid, obj.id>>},
                        auth_user, Tail(titles), sid)

\* StudentSerializer._get_or_create_tags
get_or_create_tags(rows, next_id, links, auth_user, titles, sid) ==
    get_or_create_labels(rows, next_id, links, auth_user, titles, sid)

\* StudentSerializer._get_or_create_courses
get_or_create_courses(rows, next_id, links, auth_user, titles, sid) ==
    get_or_create_labels(rows, next_id, links, auth_user, titles, sid)

\* the relation is not cleared before the new labels are added
clear_omitted(links, sid) == links

\* instance.tags.clear() / instance.courses.clear()
clear(links, sid) == {l \in links : l[1] # sid}

\* every field is written, an absent one as the empty string
setattrs_overwrite(instance, data) ==
    [f \in DOMAIN instance |->
        IF f \in DOMAIN data
        THEN IF Present(data[f]) THEN data[f][1] ELSE Blank
        ELSE instance[f]]

\* for attr, value in validated_data.items(): setattr(instance, attr, value)
setattrs(instance, data) ==
    [f \in DOMAIN instance |->
        IF f \in DOMAIN data /\ Present(data[f]) THEN data[f][1]
        ELSE instance[f]]

\* The database as one record, to pass it through a handler
Db(st, tg, cs, stg, scs, nt, nc) ==
    [students |-> st, tags |-> tg, courses |-> cs,
     student_tags |-> stg, student_courses |-> scs,
     next_tag_id |-> nt, next_course_id |-> nc]

\* StudentSerializer.create, with the user perform_create puts into
\* validated_data; the result is the database after it and whether it raised
StudentSerializer_create(data, auth_user, sid) ==
    LET student == StudentRow(sid, auth_user, data.name[1],
                       IF Present(data.link) THEN data.link[1] ELSE Blank)
        t == get_or_create_tags(tags, next_tag_id, student_tags, auth_user,
                 IF Present(data.tags) THEN data.tags[1] ELSE <<>>, sid)
        c == get_or_create_courses(courses, next_course_id, student_courses,
                 auth_user,
                 IF Present(data.courses) THEN data.courses[1] ELSE <<>>, sid)
    IN IF ~t.ok
       THEN [ok |-> FALSE,
             db |-> Db(students \cup {student}, t.rows, courses, t.links,
                       student_courses, t.next_id, next_course_id)]
       ELSE [ok |-> c.ok,
             db |-> Db(students \cup {student}, t.rows, c.rows, t.links,
                       c.links, t.next_id, c.next_id)]

\* StudentSerializer.update
StudentSerializer_update(instance, data, auth_user) ==
    LET t == IF Present(data.tags)
             THEN get_or_create_tags(tags, next_tag_id,
                      clear(student_tags, instance.id), auth_user,
                      data.tags[1], instance.id)
             ELSE [ok |-> TRUE, rows |-> tags, next_id |-> next_tag_id,
                   links |-> student_tags]
        c == IF Present(data.courses)
             THEN get_or_create_courses(courses, next_course_id,
                      clear(student_courses, instance.id), auth_user,
                      data.courses[1], instance.id)
             ELSE [ok |-> TRUE, rows |-> courses, next_id |-> next_course_id,
                   links |-> student_courses]
        saved == (students \ {instance})
                     \cup {setattrs(instance, [name |-> data.name,
                                               link |-> data.link,
                                               user |-> data.user])}
    IN IF ~t.ok
       THEN [ok |-> FALSE,
             db |-> Db(students, t.rows, courses, t.links, student_courses,
                       t.next_id, next_course_id)]
       ELSE IF ~c.ok
       THEN [ok |-> FALSE,
             db |-> Db(students, t.rows, c.rows, t.links, c.links,
                       t.next_id, c.next_id)]
       ELSE [ok |-> TRUE,
             db |-> Db(saved, t.rows, c.rows, t.links, c.links,
                       t.next_id, c.next_id)]

----------------------------------------------------------------------------
(* Requests and responses *)

\* An authenticated request: the operation, request.user, the id of the
\* detail route, PATCH (partial) or PUT, the payload, and the query
\* parameters tags, courses and assigned_only
Request(op, user, id, partial, payload, tagsq, coursesq, ao) ==
    [op |-> op, user |-> user, id |-> id, partial |-> partial,
     payload |-> payload, tags |-> tagsq, courses |-> coursesq,
     assigned_only |-> ao]

NoRequest == Request("none", 0, 0, FALSE, <<>>, <<>>, <<>>, <<>>)

\* status, the ids of the Students (sids) or labels (lids) of the body in
\* the order returned, and the ids of the tags and courses nested in the
\* Students of the body
Response(op, user, status, sids, lids, ntags, ncourses) ==
    [op |-> op, user |-> user, status |-> status, students |-> sids,
     labels |-> lids, nested_tags |-> ntags, nested_courses |-> ncourses]

\* a response without entities in its body (an error, or 204)
EmptyResponse(op, user, status) ==
    Response(op, user, status, <<>>, <<>>, {}, {})

\* no request is being answered
NoResponse == EmptyResponse("none", 0, "NONE")

Idle == resp = NoResponse

\* rows inserted so far, from the auto-increment counters
Inserted(ns, nt, nc) == (ns - 1) + (nt - 1) + (nc - 1)

\* GenericAPIView.get_object over a queryset: the view's outcome before the
\* handler proper runs
get_object(qs, id) ==
    IF ~qs.ok THEN "SERVER_ERROR"
    ELSE IF id \in Range(qs.ids) THEN "FOUND"
    ELSE "NOT_FOUND"

\* The workers that handle requests at the same time
Threads == {1, 2}

\* A worker inside StudentSerializer.create or update: the statement it
\* executes next (pc), the request (op, user, payload), the instance it
\* works on as it was read, the relation it is resolving (rel), the titles
\* of that relation still to resolve (rest), the label it got or created
\* (obj), the status of the response once it is done; and, as history, the
\* tags and courses the Student had when the request began (before) and
\* whether no other worker has handled a request since then (alone)
Thread(pc, op, user, instance, payload, rel, rest, obj, status, before) ==
    [pc |-> pc, op |-> op, user |-> user, instance |-> instance,
     payload |-> payload, rel |-> rel, rest |-> rest, obj |-> obj,
     status |-> status, before |-> before, alone |-> FALSE]

NoInstance == StudentRow(0, AnonymousUser, Blank, Blank)

IdleThread ==
    Thread("idle", "none", AnonymousUser, NoInstance, <<>>, "none", <<>>, 0,
           "NONE", [tags |-> {}, courses |-> {}])


----------------------------------------------------------------------------
(* StudentViewSet *)

Init ==
    /\ students = {}
    /\ tags = {}
    /\ courses = {}
    /\ student_tags = {}
    /\ student_courses = {}
    /\ next_student_id = 1
    /\ next_tag_id = 1
    /\ next_course_id = 1
    /\ req = NoRequest
    /\ resp = NoResponse
    /\ threads = [t \in Threads |-> IdleThread]

\* the handler's writes to the database
Commit(d) ==
    /\ students' = d.students
    /\ tags' = d.tags
    /\ courses' = d.courses
    /\ student_tags' = d.student_tags
    /\ student_courses' = d.student_courses
    /\ next_tag_id' = d.next_tag_id
    /\ next_course_id' = d.next_course_id

\* GET /students/?tags=..&courses=..
StudentList(user, tagsq, coursesq) ==
    LET qs == StudentViewSet_get_queryset(user, tagsq, coursesq)
    IN /\ Idle /\ UNCHANGED threads
       /\ req' = Request("student_list", user, 0, FALSE, <<>>, tagsq, coursesq, <<>>)
       /\ /\ resp' = IF ~qs.ok THEN EmptyResponse("student_list", user, "SERVER_ERROR")
                     ELSE Response("student_list", user, "OK", qs.ids, <<>>,
                              UNION {TagsOf(sid) : sid \in Range(qs.ids)},
                              UNION {CoursesOf(sid) : sid \in Range(qs.ids)})
          /\ UNCHANGED db

\* GET /students/{id}/
StudentRetrieve(user, id, tagsq, coursesq) ==
    LET found == get_object(StudentViewSet_get_queryset(user, tagsq, coursesq), id)
    IN /\ Idle /\ UNCHANGED threads
       /\ req' = Request("student_retrieve", user, id, FALSE, <<>>, tagsq, coursesq, <<>>)
       /\ /\ resp' = IF found # "FOUND" THEN EmptyResponse("student_retrieve", user, found)
                     ELSE Response("student_retrieve", user, "OK", <<id>>, <<>>,
                              TagsOf(id), CoursesOf(id))
          /\ UNCHANGED db

\* POST /students/: perform_create saves the serializer with
\* user=self.request.user
StudentCreate(user, p) ==
    LET data == StudentSerializer_validated_data(p)
        r == StudentSerializer_create(data, user, next_student_id)
    IN /\ Idle /\ UNCHANGED threads
       /\ req' = Request("student_create", user, 0, FALSE, p, <<>>, <<>>, <<>>)
       /\ IF ~StudentSerializer_is_valid(data, FALSE)
          THEN /\ resp' = EmptyResponse("student_create", user, "BAD_REQUEST")
               /\ UNCHANGED db
          ELSE /\ next_student_id <= MaxStudents
               /\ r.db.next_tag_id <= MaxTags + 1
               /\ r.db.next_course_id <= MaxCourses + 1
               /\ Inserted(next_student_id + 1, r.db.next_tag_id,
                           r.db.next_course_id) <= MaxRows
               /\ Commit(r.db)
               /\ next_student_id' = next_student_id + 1
               /\ resp' = IF ~r.ok
                          THEN EmptyResponse("student_create", user, "SERVER_ERROR")
                          ELSE Response("student_create", user, "CREATED",
                                   <<next_student_id>>, <<>>,
                                   Attached(r.db.student_tags, next_student_id),
                                   Attached(r.db.student_courses,
                                            next_student_id))

\* PUT (partial = FALSE) or PATCH (partial = TRUE) /students/{id}/
StudentUpdate(user, id, partial, p, tagsq, coursesq) ==
    LET found == get_object(StudentViewSet_get_queryset(user, tagsq, coursesq), id)
        data == StudentSerializer_validated_data(p)
        r == StudentSerializer_update(StudentById(id), data, user)
    IN /\ Idle /\ UNCHANGED threads
       /\ req' = Request("student_update", user, id, partial, p, tagsq, coursesq, <<>>)
       /\ IF found # "FOUND"
          THEN /\ resp' = EmptyResponse("student_update", user, found)
               /\ UNCHANGED db
          ELSE IF ~StudentSerializer_is_valid(data, partial)
          THEN /\ resp' = EmptyResponse("student_update", user, "BAD_REQUEST")
               /\ UNCHANGED db
          ELSE /\ r.db.next_tag_id <= MaxTags + 1
               /\ r.db.next_course_id <= MaxCourses + 1
               /\ Inserted(next_student_id, r.db.next_tag_id,
                           r.db.next_course_id) <= MaxRows
               /\ Commit(r.db)
               /\ UNCHANGED next_student_id
               /\ resp' = IF ~r.ok
                          THEN EmptyResponse("student_update", user, "SERVER_ERROR")
                          ELSE Response("student_update", user, "OK", <<id>>, <<>>,
                                   TagsOf(id)', CoursesOf(id)')

\* DELETE /students/{id}/: the row and its rows in both relation tables
StudentDestroy(user, id, tagsq, coursesq) ==
    LET found == get_object(StudentViewSet_get_queryset(user, tagsq, coursesq), id)
    IN /\ Idle /\ UNCHANGED threads
       /\ req' = Request("student_destroy", user, id, FALSE, <<>>, tagsq, coursesq, <<>>)
       /\ IF found # "FOUND"
          THEN /\ resp' = EmptyResponse("student_destroy", user, found)
               /\ UNCHANGED db
          ELSE /\ students' = students \ {StudentById(id)}
               /\ student_tags' = clear(student_tags, id)
               /\ student_courses' = clear(student_courses, id)
               /\ UNCHANGED <<tags, courses, next_student_id, next_tag_id,
                              next_course_id>>
               /\ resp' = EmptyResponse("student_destroy", user, "NO_CONTENT")

\* A payload of upload-image: image absent (or not an image), or a file
ImagePayload(image) == [image |-> image]

\* StudentImageSerializer: fields id (read only) and image (required)
StudentImageSerializer_is_valid(p) == Present(p.image)

\* POST /students/{id}/upload-image/
StudentUploadImage(user, id, p, tagsq, coursesq) ==
    LET found == get_object(StudentViewSet_get_queryset(user, tagsq, coursesq), id)
    IN /\ Idle /\ UNCHANGED threads
       /\ req' = Request("student_upload_image", user, id, FALSE, p, tagsq,
                         coursesq, <<>>)
       /\ IF found # "FOUND"
          THEN /\ resp' = EmptyResponse("student_upload_image", user, found)
               /\ UNCHANGED db
          ELSE IF ~StudentImageSerializer_is_valid(p)
          THEN /\ resp' = EmptyResponse("student_upload_image", user, "BAD_REQUEST")
               /\ UNCHANGED db
          ELSE /\ students' = (students \ {StudentById(id)})
                      \cup {setattrs(StudentById(id), p)}
               /\ resp' = Response("student_upload_image", user, "OK", <<id>>,
                                   <<>>, {}, {})
               /\ UNCHANGED <<tags, courses, student_tags, student_courses,
                              next_student_id, next_tag_id, next_course_id>>

----------------------------------------------------------------------------
(* BaseStudentAttrViewSet: TagViewSet and CourseViewSet *)

\* A label payload: title, and a user key no serializer declares
LabelPayload(title, user) == [title |-> title, user |-> user]

\* ListModelMixin.list over the Tag or the Course table
label_list(op, labels, links, user, ao, asc) ==
    LET qs == BaseStudentAttrViewSet_get_queryset(labels, links, user, ao, asc)
    IN IF ~qs.ok THEN EmptyResponse(op, user, "SERVER_ERROR")
       ELSE Response(op, user, "OK", <<>>, qs.ids, {}, {})

\* UpdateModelMixin.update / partial_update: [status, rows]
label_update(labels, links, user, id, partial, p, ao) ==
    LET found == get_object(
                     BaseStudentAttrViewSet_get_queryset(labels, links, user, ao, TRUE),
                     id)
        data == LabelSerializer_validated_data(p)
        instance == CHOOSE l \in labels : l.id = id
    IN IF found # "FOUND" THEN [status |-> found, rows |-> labels]
       ELSE IF ~LabelSerializer_is_valid(data, partial)
       THEN [status |-> "BAD_REQUEST", rows |-> labels]
       ELSE [status |-> "OK",
             rows |-> (labels \ {instance}) \cup {setattrs(instance, data)}]

\* the label row goes, its rows in the relation table stay
label_destroy_keeps_links(labels, links, user, id, ao) ==
    LET found == get_object(
                     BaseStudentAttrViewSet_get_queryset(labels, links, user, ao, TRUE),
                     id)
    IN IF found # "FOUND"
       THEN [status |-> found, rows |-> labels, links |-> links]
       ELSE [status |-> "NO_CONTENT",
             rows |-> {l \in labels : l.id # id},
             links |-> links]

\* DestroyModelMixin.destroy: [status, rows, links]; the label's rows in the
\* relation table go with it
label_destroy(labels, links, user, id, ao) ==
    LET found == get_object(
                     BaseStudentAttrViewSet_get_queryset(labels, links, user, ao, TRUE),
                     id)
    IN IF found # "FOUND"
       THEN [status |-> found, rows |-> labels, links |-> links]
       ELSE [status |-> "NO_CONTENT",
             rows |-> {l \in labels : l.id # id},
             links |-> {l \in links : l[2] # id}]

\* GET /tags/?assigned_only=..
TagList(user, ao, asc) ==
    /\ Idle /\ UNCHANGED threads
    /\ req' = Request("tag_list", user, 0, FALSE, <<>>, <<>>, <<>>, ao)
    /\ resp' = label_list("tag_list", tags, student_tags, user, ao, asc)
    /\ UNCHANGED db

\* PUT / PATCH /tags/{id}/
TagUpdate(user, id, partial, p, ao) ==
    LET r == label_update(tags, student_tags, user, id, partial, p, ao)
    IN /\ Idle /\ UNCHANGED threads
       /\ req' = Request("tag_update", user, id, partial, p, <<>>, <<>>, ao)
       /\ /\ tags' = r.rows
          /\ resp' = IF r.status = "OK"
                     THEN Response("tag_update", user, "OK", <<>>, <<id>>, {}, {})
                     ELSE EmptyResponse("tag_update", user, r.status)
          /\ UNCHANGED <<students, courses, student_tags, student_courses,
                         next_student_id, next_tag_id, next_course_id>>

\* DELETE /tags/{id}/
TagDestroy(user, id, ao) ==
    LET r == label_destroy(tags, student_tags, user, id, ao)
    IN /\ Idle /\ UNCHANGED threads
       /\ req' = Request("tag_destroy", user, id, FALSE, <<>>, <<>>, <<>>, ao)
       /\ /\ tags' = r.rows
          /\ student_tags' = r.links
          /\ resp' = EmptyResponse("tag_destroy", user, r.status)
          /\ UNCHANGED <<students, courses, student_courses,
                         next_student_id, next_tag_id, next_course_id>>

\* GET /tags/{id}/: the viewset has no RetrieveModelMixin, so the router
\* binds no handler to GET on the detail route
TagRetrieve(user, id) ==
    /\ Idle /\ UNCHANGED threads
    /\ req' = Request("tag_retrieve", user, id, FALSE, <<>>, <<>>, <<>>, <<>>)
    /\ resp' = EmptyResponse("tag_retrieve", user, "METHOD_NOT_ALLOWED")
    /\ UNCHANGED db

\* GET /courses/?assigned_only=..
CourseList(user, ao, asc) ==
    /\ Idle /\ UNCHANGED threads
    /\ req' = Request("course_list", user, 0, FALSE, <<>>, <<>>, <<>>, ao)
    /\ resp' = label_list("course_list", courses, student_courses, user, ao, asc)
    /\ UNCHANGED db

\* PUT / PATCH /courses/{id}/
CourseUpdate(user, id, partial, p, ao) ==
    LET r == label_update(courses, student_courses, user, id, partial, p, ao)
    IN /\ Idle /\ UNCHANGED threads
       /\ req' = Request("course_update", user, id, partial, p, <<>>, <<>>, ao)
       /\ /\ courses' = r.rows
          /\ resp' = IF r.status = "OK"
                     THEN Response("course_update", user, "OK", <<>>, <<id>>, {}, {})
                     ELSE EmptyResponse("course_update", user, r.status)
          /\ UNCHANGED <<students, tags, student_tags, student_courses,
                         next_student_id, next_tag_id, next_course_id>>

\* DELETE /courses/{id}/
CourseDestroy(user, id, ao) ==
    LET r == label_destroy(courses, student_courses, user, id, ao)
    IN /\ Idle /\ UNCHANGED threads
       /\ req' = Request("course_destroy", user, id, FALSE, <<>>, <<>>, <<>>, ao)
       /\ /\ courses' = r.rows
          /\ student_courses' = r.links
          /\ resp' = EmptyResponse("course_destroy", user, r.status)
          /\ UNCHANGED <<students, tags, student_tags,
                         next_student_id, next_tag_id, next_course_id>>

\* GET /courses/{id}/
CourseRetrieve(user, id) ==
    /\ Idle /\ UNCHANGED threads
    /\ req' = Request("course_retrieve", user, id, FALSE, <<>>, <<>>, <<>>, <<>>)
    /\ resp' = EmptyResponse("course_retrieve", user, "METHOD_NOT_ALLOWED")
    /\ UNCHANGED db

\* POST /tags/: the viewset has no CreateModelMixin, so the router binds
\* no handler to POST on the list route
TagCreate(user, p) ==
    /\ Idle /\ UNCHANGED threads
    /\ req' = Request("tag_create", user, 0, FALSE, p, <<>>, <<>>, <<>>)
    /\ resp' = EmptyResponse("tag_create", user, "METHOD_NOT_ALLOWED")
    /\ UNCHANGED db

\* POST /courses/
CourseCreate(user, p) ==
    /\ Idle /\ UNCHANGED threads
    /\ req' = Request("course_create", user, 0, FALSE, p, <<>>, <<>>, <<>>)
    /\ resp' = EmptyResponse("course_create", user, "METHOD_NOT_ALLOWED")
    /\ UNCHANGED db

\* permission_classes = [AllowAny]
AllowAny(user) == TRUE

\* authentication_classes = [TokenAuthentication] and permission_classes =
\* [IsAuthenticated]: the request carries the token of a user
IsAuthenticated(user) == user \in Owners

\* APIView.initial: authentication and permissions are checked before the
\* handler of request r is looked up and run
initial(r, Handler) ==
    IF IsAuthenticated(r.user) THEN Handler
    ELSE /\ Idle /\ UNCHANGED threads
         /\ req' = r
         /\ resp' = EmptyResponse(r.op, r.user, "UNAUTHORIZED")
         /\ UNCHANGED db

\* The response has been sent: the request cycle ends and the next request
\* can be taken
Receive ==
    /\ ~Idle /\ UNCHANGED threads
    /\ req' = NoRequest
    /\ resp' = NoResponse
    /\ UNCHANGED db

----------------------------------------------------------------------------
(* Requests handled at the same time.  No handler opens a transaction, so  *)
(* each statement of StudentSerializer.create and update that reaches the  *)
(* database is committed by itself and is one step of the worker.          *)

ListOf(o) == IF Present(o) THEN o[1] ELSE <<>>

\* the end of create (return student) and the last statement of update
Finish(th) ==
    IF th.op = "student_update" THEN [th EXCEPT !.pc = "save"]
    ELSE [th EXCEPT !.pc = "done", !.status = "CREATED"]

\* the head of the for loop of _get_or_create_tags / _get_or_create_courses
LoopOr(th, otherwise) ==
    IF th.rest # <<>> THEN [th EXCEPT !.pc = "get"] ELSE otherwise

\* create: self._get_or_create_courses(courses, student);
\* update: if courses is not None: instance.courses.clear() ...
EnterCourses(th) ==
    IF th.op = "student_update"
    THEN IF Present(th.payload.courses)
         THEN [th EXCEPT !.pc = "clear", !.rel = "courses"]
         ELSE Finish(th)
    ELSE LoopOr([th EXCEPT !.rel = "courses",
                           !.rest = ListOf(th.payload.courses)],
                Finish(th))

\* create: self._get_or_create_tags(tags, student);
\* update: if tags is not None: instance.tags.clear() ...
EnterTags(th) ==
    IF th.op = "student_update"
    THEN IF Present(th.payload.tags)
         THEN [th EXCEPT !.pc = "clear", !.rel = "tags"]
         ELSE EnterCourses(th)
    ELSE LoopOr([th EXCEPT !.rel = "tags", !.rest = ListOf(th.payload.tags)],
                EnterCourses(th))

\* the statement after one relation's loop
AfterRelation(th) == IF th.rel = "tags" THEN EnterCourses(th) ELSE Finish(th)

\* worker t takes a request and becomes th: it is alone if the others are
\* idle, and the others are no longer alone
Begin(t, th) ==
    [o \in Threads |->
        IF o = t
        THEN [th EXCEPT !.alone = \A x \in Threads \ {t} : threads[x].pc = "idle"]
        ELSE [threads[o] EXCEPT !.alone = FALSE]]

\* POST /students/ taken by worker t: validation, then
\* Student.objects.create(**validated_data) with the user of perform_create
ThreadStudentCreate(t, user, p) ==
    LET data == StudentSerializer_validated_data(p)
        student == StudentRow(next_student_id, user, data.name[1],
                       IF Present(data.link) THEN data.link[1] ELSE Blank)
    IN /\ threads[t].pc = "idle"
       /\ IF ~StudentSerializer_is_valid(data, FALSE)
          THEN /\ threads' = Begin(t,
                     Thread("done", "student_create", user, NoInstance, p,
                            "none", <<>>, 0, "BAD_REQUEST",
                            [tags |-> {}, courses |-> {}]))
               /\ UNCHANGED <<db, req, resp>>
          ELSE /\ next_student_id <= MaxStudents
               /\ students' = students \cup {student}
               /\ next_student_id' = next_student_id + 1
               /\ threads' = Begin(t,
                     EnterTags(Thread("begin", "student_create", user, student,
                                      data, "none", <<>>, 0, "NONE",
                                      [tags |-> {}, courses |-> {}])))
               /\ UNCHANGED <<tags, courses, student_tags, student_courses,
                              next_tag_id, next_course_id, req, resp>>

\* PATCH /students/{id}/ taken by worker t: get_object, validation, and
\* the two pops of update
ThreadStudentUpdate(t, user, id, p) ==
    LET found == get_object(StudentViewSet_get_queryset(user, <<>>, <<>>), id)
        data == StudentSerializer_validated_data(p)
        before == [tags |-> TagsOf(id), courses |-> CoursesOf(id)]
    IN /\ threads[t].pc = "idle"
       /\ threads' = Begin(t,
              IF found # "FOUND"
              THEN Thread("done", "student_update", user, NoInstance, p,
                          "none", <<>>, 0, found, before)
              ELSE EnterTags(Thread("begin", "student_update", user,
                                    StudentById(id), data, "none", <<>>, 0,
                                    "NONE", before)))
       /\ UNCHANGED <<db, req, resp>>

\* instance.tags.clear() / instance.courses.clear()
ThreadClear(t) ==
    LET th == threads[t]
    IN /\ th.pc = "clear"
       /\ IF th.rel = "tags"
          THEN /\ student_tags' = clear(student_tags, th.instance.id)
               /\ UNCHANGED student_courses
          ELSE /\ student_courses' = clear(student_courses, th.instance.id)
               /\ UNCHANGED student_tags
       /\ threads' = [threads EXCEPT ![t] =
              LET cleared == [th EXCEPT !.rest = th.payload[th.rel][1]]
              IN LoopOr(cleared, AfterRelation(cleared))]
       /\ UNCHANGED <<students, tags, courses, next_student_id, next_tag_id,
                      next_course_id, req, resp>>

\* the SELECT of get_or_create(user=auth_user, **label)
ThreadGet(t) ==
    LET th == threads[t]
        found == Model_objects_get(IF th.rel = "tags" THEN tags ELSE courses,
                                   th.user, Head(th.rest))
    IN /\ th.pc = "get"
       /\ threads' = [threads EXCEPT ![t] =
              IF Cardinality(found) > 1
              THEN [th EXCEPT !.pc = "done", !.status = "SERVER_ERROR"]
              ELSE IF found = {} THEN [th EXCEPT !.pc = "create"]
              ELSE [th EXCEPT !.pc = "add",
                              !.obj = (CHOOSE l \in found : TRUE).id]]
       /\ UNCHANGED <<db, req, resp>>

\* the INSERT is tried against a unique (user, title): on a conflict the
\* row that won is read again
Model_objects_create_or_reread(rows, next_id, user, title) ==
    LET found == Model_objects_get(rows, user, title)
    IN IF found = {}
       THEN [rows |-> rows \cup {LabelRow(next_id, user, title)},
             next_id |-> next_id + 1, obj |-> next_id]
       ELSE [rows |-> rows, next_id |-> next_id,
             obj |-> (CHOOSE l \in found : TRUE).id]

\* the create of get_or_create: INSERT a row with the next id
Model_objects_create(rows, next_id, user, title) ==
    [rows |-> rows \cup {LabelRow(next_id, user, title)},
     next_id |-> next_id + 1, obj |-> next_id]

\* get_or_create creates the label, after a SELECT that found no row
ThreadCreate(t) ==
    LET th == threads[t]
        tg == Model_objects_create(tags, next_tag_id, th.user, Head(th.rest))
        cs == Model_objects_create(courses, next_course_id, th.user,
                                   Head(th.rest))
    IN /\ th.pc = "create"
       /\ IF th.rel = "tags"
          THEN /\ next_tag_id <= MaxTags
               /\ tags' = tg.rows
               /\ next_tag_id' = tg.next_id
               /\ threads' = [threads EXCEPT ![t] =
                      [th EXCEPT !.pc = "add", !.obj = tg.obj]]
               /\ UNCHANGED <<courses, next_course_id>>
          ELSE /\ next_course_id <= MaxCourses
               /\ courses' = cs.rows
               /\ next_course_id' = cs.next_id
               /\ threads' = [threads EXCEPT ![t] =
                      [th EXCEPT !.pc = "add", !.obj = cs.obj]]
               /\ UNCHANGED <<tags, next_tag_id>>
       /\ UNCHANGED <<students, student_tags, student_courses,
                      next_student_id, req, resp>>

\* student.tags.add(tag_obj) / student.courses.add(course_obj)
ThreadAdd(t) ==
    LET th == threads[t]
    IN /\ th.pc = "add"
       /\ IF th.rel = "tags"
          THEN /\ student_tags' = student_tags \cup {<<th.instance.id, th.obj>>}
               /\ UNCHANGED student_courses
          ELSE /\ student_courses' =
                      student_courses \cup {<<th.instance.id, th.obj>>}
               /\ UNCHANGED student_tags
       /\ threads' = [threads EXCEPT ![t] =
              LET added == [th EXCEPT !.rest = Tail(th.rest), !.obj = 0]
              IN LoopOr(added, AfterRelation(added))]
       /\ UNCHANGED <<students, tags, courses, next_student_id, next_tag_id,
                      next_course_id, req, resp>>

\* the setattr loop and instance.save(): the row is written from the
\* instance as get_object read it
ThreadSave(t) ==
    LET th == threads[t]
        saved == setattrs(th.instance, [name |-> th.payload.name,
                                        link |-> th.payload.link,
                                        user |-> th.payload.user])
    IN /\ th.pc = "save"
       /\ students' = {s \in students : s.id # th.instance.id} \cup {saved}
       /\ threads' = [threads EXCEPT ![t] =
              [th EXCEPT !.pc = "done", !.status = "OK"]]
       /\ UNCHANGED <<tags, courses, student_tags, student_courses,
                      next_student_id, next_tag_id, next_course_id, req, resp>>

\* the worker sends its response and is free for the next request
ThreadRespond(t) ==
    /\ threads[t].pc = "done"
    /\ threads' = [threads EXCEPT ![t] = IdleThread]
    /\ UNCHANGED <<db, req, resp>>

----------------------------------------------------------------------------
(* Requests *)

StudentIds == 1..MaxStudents
TagIds == 1..MaxTags
CourseIds == 1..MaxCourses

\* the tags and courses of a payload: each absent or a list of titles, with
\* at most MaxLen descriptors in all
LabelLists == SeqsUpTo(Titles, MaxLen)

LabelFields ==
    {f \in Opt(LabelLists) \X Opt(LabelLists) :
        (IF Present(f[1]) THEN Len(f[1][1]) ELSE 0)
          + (IF Present(f[2]) THEN Len(f[2][1]) ELSE 0) <= MaxLen}

\* payloads of POST, PUT and PATCH on students that carry label lists;
\* name is there where the serializer requires it
LabelSlice(partial) ==
    {StudentPayload(IF partial THEN <<>> ELSE <<1>>, <<>>, <<>>, f[1], f[2]) :
        f \in LabelFields}

\* payloads that carry every combination of the scalar fields, and of a
\* user key naming the other owner, without labels or with short lists of
\* one title
ShortLists == Opt({<<>>, <<1>>})

AttrSlice(user, partial) ==
    {StudentPayload(n, l, u, <<>>, <<>>) :
        n \in Opt(Vals), l \in Opt({Blank, 1}), u \in Opt(Owners \ {user})}
    \cup
    {StudentPayload(IF partial THEN <<>> ELSE <<1>>, <<>>, <<>>, t, c) :
        t \in ShortLists, c \in ShortLists}

LabelPayloads(user) ==
    {LabelPayload(t, u) : t \in Opt(Titles), u \in Opt(Owners \ {user})}

\* ?tags= and ?courses= of a list request: either parameter alone with up to
\* two tokens, or both with one id each
ListParams ==
    {<<q, <<>>>> : q \in SeqsUpTo(TagIds \cup {NotAnInt}, 2)}
    \cup {<<<<>>, q>> : q \in SeqsUpTo(CourseIds \cup {NotAnInt}, 2)}
    \cup {<<<<t>>, <<c>>>> : t \in TagIds, c \in CourseIds}

\* ?tags= and ?courses= on a detail request
DetailParams ==
    {<<<<>>, <<>>>>, <<<<1>>, <<>>>>, <<<<>>, <<1>>>>, <<<<NotAnInt>>, <<>>>>}

\* values of the assigned_only parameter
AssignedOnlyParams == Opt({0, 1, NotAnInt})

\* the requests that only read
Reads ==
    \/ Idle /\ \E u \in Owners, q \in ListParams : StudentList(u, q[1], q[2])
    \/ Idle /\ \E u \in Owners, id \in StudentIds, q \in DetailParams :
           StudentRetrieve(u, id, q[1], q[2])
    \/ Idle /\ \E u \in Owners, ao \in AssignedOnlyParams, asc \in BOOLEAN :
           TagList(u, ao, asc)
    \/ Idle /\ \E u \in Owners, id \in TagIds : TagRetrieve(u, id)
    \/ Idle /\ \E u \in Owners, ao \in AssignedOnlyParams, asc \in BOOLEAN :
           CourseList(u, ao, asc)
    \/ Idle /\ \E u \in Owners, id \in CourseIds : CourseRetrieve(u, id)

\* deletions, and writes to a detail route that carries query parameters
Deletes ==
    \/ Idle /\ \E u \in Owners, id \in StudentIds, partial \in BOOLEAN,
          q \in DetailParams :
           StudentUpdate(u, id, partial,
               StudentPayload(<<1>>, <<>>, <<>>, <<<<1>>>>, <<>>), q[1], q[2])
    \/ Idle /\ \E u \in Owners, id \in StudentIds, q \in DetailParams :
           StudentDestroy(u, id, q[1], q[2])
    \/ Idle /\ \E u \in Owners, id \in TagIds, ao \in AssignedOnlyParams :
           TagUpdate(u, id, TRUE, LabelPayload(<<2>>, <<>>), ao)
    \/ Idle /\ \E u \in Owners, id \in TagIds, ao \in AssignedOnlyParams :
           TagDestroy(u, id, ao)
    \/ Idle /\ \E u \in Owners, id \in CourseIds, ao \in AssignedOnlyParams :
           CourseUpdate(u, id, TRUE, LabelPayload(<<2>>, <<>>), ao)
    \/ Idle /\ \E u \in Owners, id \in CourseIds, ao \in AssignedOnlyParams :
           CourseDestroy(u, id, ao)

\* Requests whose payloads vary the label lists and the titles
Next ==
    \/ Reads
    \/ Deletes
    \/ Idle /\ \E u \in Owners : \E p \in LabelSlice(FALSE) : StudentCreate(u, p)
    \/ Idle /\ \E u \in Owners, id \in StudentIds, partial \in BOOLEAN :
           \E p \in LabelSlice(partial) :
               StudentUpdate(u, id, partial, p, <<>>, <<>>)
    \/ Idle /\ \E u \in Owners, id \in TagIds, partial \in BOOLEAN, t \in Opt(Titles) :
           TagUpdate(u, id, partial, LabelPayload(t, <<>>), <<>>)
    \/ Idle /\ \E u \in Owners, id \in CourseIds, partial \in BOOLEAN, t \in Opt(Titles) :
           CourseUpdate(u, id, partial, LabelPayload(t, <<>>), <<>>)
    \/ Receive

Spec == Init /\ [][Next]_vars

RowsWithin(n) == Inserted(next_student_id, next_tag_id, next_course_id) <= n

\* Writes whose payloads vary the scalar attributes and the user key, in
\* runs that insert one row less
NextAttrs ==
    \/ Idle /\ \E u \in Owners : \E p \in AttrSlice(u, FALSE) :
           StudentCreate(u, p) /\ RowsWithin(MaxRows - 1)'
    \/ Idle /\ \E u \in Owners, id \in StudentIds, partial \in BOOLEAN :
           \E p \in AttrSlice(u, partial) :
               StudentUpdate(u, id, partial, p, <<>>, <<>>)
                   /\ RowsWithin(MaxRows - 1)'
    \/ Idle /\ \E u \in Owners, id \in StudentIds :
           StudentDestroy(u, id, <<>>, <<>>)
    \/ Idle /\ \E u \in Owners, id \in TagIds, partial \in BOOLEAN :
           \E p \in LabelPayloads(u) : TagUpdate(u, id, partial, p, <<>>)
    \/ Idle /\ \E u \in Owners, id \in CourseIds, partial \in BOOLEAN :
           \E p \in LabelPayloads(u) : CourseUpdate(u, id, partial, p, <<>>)
    \/ Receive

SpecAttrs == Init /\ [][NextAttrs]_vars

\* the users a request can come from: with a token, or without one
Anyone == Owners \cup {AnonymousUser}

\* ?tags= on the requests of NextAuth, and ?assigned_only=
AuthParams == {<<>>, <<1>>}

\* Requests with and without a credential, on every route of the router
NextAuth ==
    \/ Idle /\ \E u \in Anyone, q \in AuthParams :
           initial(Request("student_list", u, 0, FALSE, <<>>, q, <<>>, <<>>),
                   StudentList(u, q, <<>>))
    \/ Idle /\ \E u \in Anyone, id \in StudentIds, q \in AuthParams :
           initial(Request("student_retrieve", u, id, FALSE, <<>>, q, <<>>, <<>>),
                   StudentRetrieve(u, id, q, <<>>))
    \/ Idle /\ \E u \in Anyone, t \in Titles :
           LET p == StudentPayload(<<1>>, <<>>, <<>>, <<<<t>>>>, <<>>)
           IN initial(Request("student_create", u, 0, FALSE, p, <<>>, <<>>, <<>>),
                      StudentCreate(u, p))
    \/ Idle /\ \E u \in Anyone, id \in StudentIds, partial \in BOOLEAN :
           LET p == StudentPayload(<<2>>, <<>>, <<>>, <<<<>>>>, <<>>)
           IN initial(Request("student_update", u, id, partial, p, <<>>, <<>>, <<>>),
                      StudentUpdate(u, id, partial, p, <<>>, <<>>))
    \/ Idle /\ \E u \in Anyone, id \in StudentIds :
           initial(Request("student_destroy", u, id, FALSE, <<>>, <<>>, <<>>, <<>>),
                   StudentDestroy(u, id, <<>>, <<>>))
    \/ Idle /\ \E u \in Anyone, id \in StudentIds, q \in AuthParams,
                  image \in Opt({ImageFile}) :
           initial(Request("student_upload_image", u, id, FALSE,
                           ImagePayload(image), q, <<>>, <<>>),
                   StudentUploadImage(u, id, ImagePayload(image), q, <<>>))
    \/ Idle /\ \E u \in Anyone, ao \in AuthParams :
           initial(Request("tag_list", u, 0, FALSE, <<>>, <<>>, <<>>, ao),
                   TagList(u, ao, TRUE))
    \/ Idle /\ \E u \in Anyone, id \in TagIds, ao \in AuthParams :
           LET p == LabelPayload(<<2>>, <<>>)
           IN initial(Request("tag_update", u, id, TRUE, p, <<>>, <<>>, ao),
                      TagUpdate(u, id, TRUE, p, ao))
    \/ Idle /\ \E u \in Anyone, id \in TagIds, ao \in AuthParams :
           initial(Request("tag_destroy", u, id, FALSE, <<>>, <<>>, <<>>, ao),
                   TagDestroy(u, id, ao))
    \/ Idle /\ \E u \in Anyone, id \in TagIds :
           initial(Request("tag_retrieve", u, id, FALSE, <<>>, <<>>, <<>>, <<>>),
                   TagRetrieve(u, id))
    \/ Idle /\ \E u \in Anyone :
           initial(Request("tag_create", u, 0, FALSE, LabelPayload(<<1>>, <<>>),
                           <<>>, <<>>, <<>>),
                   TagCreate(u, LabelPayload(<<1>>, <<>>)))
    \/ Idle /\ \E u \in Anyone, ao \in AuthParams :
           initial(Request("course_list", u, 0, FALSE, <<>>, <<>>, <<>>, ao),
                   CourseList(u, ao, TRUE))
    \/ Idle /\ \E u \in Anyone, id \in CourseIds :
           initial(Request("course_destroy", u, id, FALSE, <<>>, <<>>, <<>>, <<>>),
                   CourseDestroy(u, id, <<>>))
    \/ Receive

SpecAuth == Init /\ [][NextAuth]_vars

\* payloads of the requests handled at the same time: a tags list of one
\* or two titles, a courses list of one, either one absent
ThreadSlice(partial) ==
    {StudentPayload(IF partial THEN <<>> ELSE <<1>>, <<>>, <<>>, t, c) :
        t \in Opt({<<1>>, <<1, 2>>}), c \in Opt({<<1>>})}

\* worker t is between the first and the last statement of an update of
\* Student id
Updating(t, id) ==
    /\ threads[t].op = "student_update"
    /\ threads[t].pc \in {"clear", "get", "create", "add", "save"}
    /\ threads[t].instance.id = id

\* Two workers that run Student creates and updates statement by
\* statement, and the owner reading a Student between the statements of
\* an update of it, in runs that insert one row less; a response is received
\* before the next statement runs
NextConcurrent ==
    \/ Idle /\ \E t \in Threads, u \in Owners : \E p \in ThreadSlice(FALSE) :
           ThreadStudentCreate(t, u, p) /\ RowsWithin(MaxRows - 1)'
    \/ Idle /\ \E t \in Threads, u \in Owners, id \in StudentIds :
           \E p \in ThreadSlice(TRUE) : ThreadStudentUpdate(t, u, id, p)
    \/ Idle /\ \E t \in Threads : ThreadClear(t)
    \/ Idle /\ \E t \in Threads : ThreadGet(t)
    \/ Idle /\ \E t \in Threads : ThreadCreate(t) /\ RowsWithin(MaxRows - 1)'
    \/ Idle /\ \E t \in Threads : ThreadAdd(t)
    \/ Idle /\ \E t \in Threads : ThreadSave(t)
    \/ Idle /\ \E t \in Threads : ThreadRespond(t)
    \/ Idle /\ \E t \in Threads, id \in StudentIds :
           Updating(t, id) /\ StudentRetrieve(threads[t].user, id, <<>>, <<>>)
    \/ Receive

SpecConcurrent == Init /\ [][NextConcurrent]_vars

\* Requests handled one at a time that rename no label: Student writes with
\* label lists, deletions, label updates that leave the title out, and POST
\* on the label list routes
NextNoRename ==
    \/ Idle /\ \E u \in Owners : \E p \in LabelSlice(FALSE) : StudentCreate(u, p)
    \/ Idle /\ \E u \in Owners, id \in StudentIds, partial \in BOOLEAN :
           \E p \in LabelSlice(partial) :
               StudentUpdate(u, id, partial, p, <<>>, <<>>)
    \/ Idle /\ \E u \in Owners, id \in StudentIds :
           StudentDestroy(u, id, <<>>, <<>>)
    \/ Idle /\ \E u \in Owners, id \in TagIds :
           TagUpdate(u, id, TRUE, LabelPayload(<<>>, <<>>), <<>>)
    \/ Idle /\ \E u \in Owners, id \in TagIds : TagDestroy(u, id, <<>>)
    \/ Idle /\ \E u \in Owners, id \in CourseIds :
           CourseUpdate(u, id, TRUE, LabelPayload(<<>>, <<>>), <<>>)
    \/ Idle /\ \E u \in Owners, id \in CourseIds : CourseDestroy(u, id, <<>>)
    \/ Idle /\ \E u \in Owners, t \in Titles :
           TagCreate(u, LabelPayload(<<t>>, <<>>))
    \/ Idle /\ \E u \in Owners, t \in Titles :
           CourseCreate(u, LabelPayload(<<t>>, <<>>))
    \/ Receive

SpecNoRename == Init /\ [][NextNoRename]_vars

----------------------------------------------------------------------------
(* Properties *)

OwnedStudents(u) == {s.id : s \in {x \in students : x.user = u}}
OwnedTags(u) == {l.id : l \in {x \in tags : x.user = u}}
OwnedCourses(u) == {l.id : l \in {x \in courses : x.user = u}}

IsTagOp(op) == op \in {"tag_list", "tag_update", "tag_destroy", "tag_retrieve"}
IsCourseOp(op) ==
    op \in {"course_list", "course_update", "course_destroy", "course_retrieve"}

\* C1: whatever the query parameters, every Student of a list or detail
\* response, every Tag and Course nested in those Students and every label
\* of a Tag or Course list is owned by the user the response is for.
C1_OwnerIsolation ==
    /\ Range(resp.students) \subseteq OwnedStudents(resp.user)
    /\ resp.nested_tags \subseteq OwnedTags(resp.user)
    /\ resp.nested_courses \subseteq OwnedCourses(resp.user)
    /\ IsTagOp(resp.op) => Range(resp.labels) \subseteq OwnedTags(resp.user)
    /\ IsCourseOp(resp.op) => Range(resp.labels) \subseteq OwnedCourses(resp.user)

\* a Student list with a tags filter answered with Students of the
\* requester while another owner has a Student carrying one of the tags
\* asked for
C1_Witness ==
    /\ resp.op = "student_list"
    /\ req.tags # <<>>
    /\ resp.students # <<>>
    /\ \E l \in student_tags :
           /\ l[2] \in Range(req.tags)
           /\ l[1] \notin OwnedStudents(resp.user)

\* the query parameters of a request parse as integers
WellFormed(r) ==
    NotAnInt \notin Range(r.tags) \cup Range(r.courses) \cup Range(r.assigned_only)

\* the ids of the table a detail request addresses that its user owns
OwnedTargets(r) ==
    IF IsTagOp(r.op) THEN OwnedTags(r.user)
    ELSE IF IsCourseOp(r.op) THEN OwnedCourses(r.user)
    ELSE OwnedStudents(r.user)

\* the id of a detail request names a row of another owner
ForeignTarget(r) ==
    LET rows == IF IsTagOp(r.op) THEN tags
                ELSE IF IsCourseOp(r.op) THEN courses ELSE students
    IN \E x \in rows : x.id = r.id /\ x.user # r.user

NotFound(r) == EmptyResponse(r.op, r.user, "NOT_FOUND")

Resolves(r, status) ==
    /\ r.op \in {"student_create", "student_update"}
    /\ status \in {"CREATED", "OK", "SERVER_ERROR"}
    /\ WellFormed(r)

\* the Student a create or update writes to (before the step is taken)
Written(r) == IF r.op = "student_create" THEN next_student_id ELSE r.id

\* get-or-create of one relation: old and new are the label table before
\* and after the request, links the relation table after it
GetOrCreateHolds(old, new, links, user, titles, sid) ==
    LET created == {l \in new : \A o \in old : o.id # l.id}
        missing == {t \in Range(titles) :
                       \A o \in old : ~(o.user = user /\ o.title = t)}
    IN /\ Cardinality(created) = Cardinality(missing)
       /\ \A l \in created : l.user = user
       /\ \A t \in Range(titles) :
              Cardinality({l \in new : /\ l.title = t
                                       /\ l.user = user
                                       /\ <<sid, l.id>> \in links}) = 1

\* C3 as stated: a Student create or update with a list of titles creates
\* as many labels as the list has distinct titles its user owned no label
\* for, all owned by that user, and leaves each distinct title of the list
\* attached to the Student exactly once.
C3_GetOrCreate ==
    [][LET r == req'
       IN Resolves(r, resp'.status)
          => /\ Present(r.payload.tags)
                => GetOrCreateHolds(tags, tags', student_tags', r.user,
                                    r.payload.tags[1], Written(r))
             /\ Present(r.payload.courses)
                => GetOrCreateHolds(courses, courses', student_courses', r.user,
                                    r.payload.courses[1], Written(r))]_vars

\* the ids of the labels a list request of user u without parameters shows
ListedTags(u) ==
    Range(BaseStudentAttrViewSet_get_queryset(tags, student_tags, u, <<>>, TRUE).ids)

ListedCourses(u) ==
    Range(BaseStudentAttrViewSet_get_queryset(courses, student_courses, u,
                                              <<>>, TRUE).ids)

\* replacement of one relation of Student sid by the list titles: old and
\* new are the label table before and after, before and after the ids
\* attached before and after, listed the owner's label listing after
ReplaceHolds(old, new, before, after, listed, user, titles) ==
    /\ after = {l.id : l \in {x \in new : x.user = user /\ x.title \in Range(titles)}}
    /\ Cardinality(after) = Cardinality(Range(titles))
    /\ (before \ after) \subseteq listed
    /\ titles = <<>> => after = {} /\ new = old

\* C4: after a successful Student update whose payload has a tags
\* (courses) list, the Student's tags (courses) are exactly the labels of
\* the list's titles, one per title; the labels detached are still in the
\* owner's listing; an empty list leaves the Student without labels of
\* that kind and the label table as it was.
C4_UpdateReplaces ==
    [][\A u \in Owners, id \in StudentIds :
          (/\ req'.op = "student_update" /\ resp'.status = "OK"
           /\ req'.user = u /\ req'.id = id)
          => /\ Present(req'.payload.tags)
                => ReplaceHolds(tags, tags', TagsOf(id), TagsOf(id)',
                                ListedTags(u)', u, req'.payload.tags[1])
             /\ Present(req'.payload.courses)
                => ReplaceHolds(courses, courses', CoursesOf(id),
                                CoursesOf(id)', ListedCourses(u)',
                                u, req'.payload.courses[1])]_vars

\* a successful update replaced the tags of a Student by a list of one
\* title while the owner has a tag of another title left unattached
C4_Witness ==
    /\ req.op = "student_update"
    /\ resp.status = "OK"
    /\ Present(req.payload.tags)
    /\ Len(req.payload.tags[1]) = 1
    /\ Cardinality(TagsOf(req.id)) = 1
    /\ \E l \in tags :
           /\ l.user = req.user
           /\ l.title \notin Range(req.payload.tags[1])
           /\ \A k \in student_tags : k[2] # l.id

IsInjective(seq) == \A i, j \in DOMAIN seq : seq[i] = seq[j] => i = j

HasAnyOf(attached, q) == q # <<>> => attached \cap Range(q) # {}

\* C6: a Student list answered for user u with tags ids T and courses ids C
\* holds exactly the Students of u that have a tag among T (when T is
\* given) and a course among C (when C is given), each once.
C6_StudentFilter ==
    (resp.op = "student_list" /\ resp.status = "OK")
    => /\ IsInjective(resp.students)
       /\ Range(resp.students) =
              {s.id : s \in {x \in students :
                                /\ x.user = req.user
                                /\ HasAnyOf(TagsOf(x.id), req.tags)
                                /\ HasAnyOf(CoursesOf(x.id), req.courses)}}

\* a list filtered by two tag ids shows a Student that has both tags and
\* leaves out a Student of the same owner that has neither
C6_Witness ==
    /\ resp.op = "student_list"
    /\ resp.status = "OK"
    /\ Cardinality(Range(req.tags)) = 2
    /\ \E sid \in Range(resp.students) : Range(req.tags) \subseteq TagsOf(sid)
    /\ \E s \in students :
           s.user = req.user /\ s.id \notin Range(resp.students)

AssignedOnly(r) == r.assigned_only # <<>> /\ r.assigned_only # <<0>>

\* the rows and the relation table a label request works on
LabelsOf(op) == IF IsTagOp(op) THEN tags ELSE courses
LinksOf(op) == IF IsTagOp(op) THEN student_tags ELSE student_courses

C8_NoCascade ==
    [][\A u \in Owners :
          req'.user = u =>
          LET r == req'
          IN /\ (r.op = "student_destroy" /\ resp'.status = "NO_CONTENT")
                => /\ students' = {s \in students : s.id # r.id}
                   /\ student_tags' = {k \in student_tags : k[1] # r.id}
                   /\ student_courses' = {k \in student_courses : k[1] # r.id}
                   /\ tags' = tags /\ courses' = courses
                   /\ TagsOf(r.id) \subseteq ListedTags(u)'
                   /\ CoursesOf(r.id) \subseteq ListedCourses(u)'
             /\ (r.op = "tag_destroy" /\ resp'.status = "NO_CONTENT")
                => /\ tags' = {l \in tags : l.id # r.id}
                   /\ student_tags' = {k \in student_tags : k[2] # r.id}
                   /\ students' = students /\ courses' = courses
                   /\ student_courses' = student_courses
             /\ (r.op = "course_destroy" /\ resp'.status = "NO_CONTENT")
                => /\ courses' = {l \in courses : l.id # r.id}
                   /\ student_courses' = {k \in student_courses : k[2] # r.id}
                   /\ students' = students /\ tags' = tags
                   /\ student_tags' = student_tags]_vars

\* a tag was deleted and a Student of its owner is left that has another
\* tag and a course
C8_Witness ==
    /\ req.op = "tag_destroy"
    /\ resp.status = "NO_CONTENT"
    /\ \E s \in students :
           s.user = req.user /\ TagsOf(s.id) # {} /\ CoursesOf(s.id) # {}

TitleOf(rows, id) == (CHOOSE l \in rows : l.id = id).title

\* C10: the ids of a Student list are strictly descending, and the titles
\* of a Tag or Course list are descending.
C10_Ordering ==
    /\ (resp.op = "student_list" /\ resp.status = "OK")
       => \A i, j \in DOMAIN resp.students :
              i < j => resp.students[i] > resp.students[j]
    /\ (resp.op \in {"tag_list", "course_list"} /\ resp.status = "OK")
       => \A i, j \in DOMAIN resp.labels :
              i < j => TitleOf(LabelsOf(resp.op), resp.labels[i])
                         >= TitleOf(LabelsOf(resp.op), resp.labels[j])

\* a course list of two courses with different titles, the one created
\* later having the lower title
C10_Witness ==
    /\ resp.op = "course_list"
    /\ resp.status = "OK"
    /\ Len(resp.labels) = 2
    /\ resp.labels[1] < resp.labels[2]
    /\ TitleOf(courses, resp.labels[1]) > TitleOf(courses, resp.labels[2])

\* C5: a Student update without a tags field leaves the Student's tags as
\* they were, one without a courses field leaves its courses as they were,
\* and a partial update leaves each scalar attribute its payload does not
\* name at its value.
C5_AbsentFieldsUnchanged ==
    [][\A id \in StudentIds :
          (req'.op = "student_update" /\ req'.id = id)
          => /\ ~Present(req'.payload.tags) => TagsOf(id)' = TagsOf(id)
             /\ ~Present(req'.payload.courses) => CoursesOf(id)' = CoursesOf(id)
             /\ (req'.partial /\ \E s \in students : s.id = id)
                => /\ ~Present(req'.payload.name)
                      => StudentById(id)'.name = StudentById(id).name
                   /\ ~Present(req'.payload.link)
                      => StudentById(id)'.link = StudentById(id).link]_vars

\* a successful PATCH carrying only a tags list, on a Student that has a
\* course and a name and a link other than the values a create defaults to
C5_Witness ==
    /\ req.op = "student_update"
    /\ resp.status = "OK"
    /\ req.partial
    /\ Present(req.payload.tags) /\ req.payload.tags[1] # <<>>
    /\ ~Present(req.payload.courses)
    /\ ~Present(req.payload.name) /\ ~Present(req.payload.link)
    /\ CoursesOf(req.id) # {}
    /\ StudentById(req.id).name = 2
    /\ StudentById(req.id).link = 1

SameOwners(old, new) == \A a \in old, b \in new : a.id = b.id => a.user = b.user

CreatedBy(old, new, u) ==
    \A b \in new : (\A a \in old : a.id # b.id) => b.user = u

C11_AuthRequired ==
    [][(req'.user = AnonymousUser /\ req'.op # "none")
       => /\ resp' = EmptyResponse(req'.op, AnonymousUser, "UNAUTHORIZED")
          /\ UNCHANGED db]_vars

\* an upload-image without a credential was refused on a Student that
\* exists and has tags
C11_Witness ==
    /\ req.op = "student_upload_image"
    /\ req.user = AnonymousUser
    /\ Present(req.payload.image)
    /\ resp.status = "UNAUTHORIZED"
    /\ \E s \in students : s.id = req.id /\ TagsOf(s.id) # {}

\* C12 as stated: a Student list whose tags or courses parameter holds an
\* element that is not an integer is answered with a validation error (400).
C12_MalformedIdsRejected ==
    (/\ resp.op = "student_list"
     /\ NotAnInt \in Range(req.tags) \cup Range(req.courses))
    => resp.status = "BAD_REQUEST"

\* reuse of one relation: every title of the list the user owned a label
\* for ends attached through one of those labels, and no label of that
\* title is created
ReuseHolds(old, new, links, user, titles, sid) ==
    \A t \in Range(titles) :
        Model_objects_get(old, user, t) # {}
        => /\ \E l \in Model_objects_get(old, user, t) : <<sid, l.id>> \in links
           /\ Model_objects_get(new, user, t) = Model_objects_get(old, user, t)

\* some title of the list is one the user owns a label for
Reuses(rows, user, titles) ==
    \E t \in Range(titles) : Model_objects_get(rows, user, t) # {}

\* C13 as stated: a Student create or update naming a title for which the
\* requester owns at least one label, even several, succeeds, attaches one
\* of the existing labels of that title and creates none.
C13_ReuseIfFound ==
    [][\A u \in Owners :
          (req'.user = u /\ Resolves(req', resp'.status))
          => /\ Reuses(tags, u, ListOf(req'.payload.tags))
                => /\ resp'.status \in {"CREATED", "OK"}
                   /\ ReuseHolds(tags, tags', student_tags', u,
                                 ListOf(req'.payload.tags), Written(req'))
             /\ Reuses(courses, u, ListOf(req'.payload.courses))
                => /\ resp'.status \in {"CREATED", "OK"}
                   /\ ReuseHolds(courses, courses', student_courses', u,
                                 ListOf(req'.payload.courses), Written(req'))]_vars

\* no other worker has handled a request since worker t took its own
Alone(t) == threads[t].alone

\* the labels ids are the resolution of the list titles: one label per
\* title of the list
ResolvedFrom(rows, ids, titles) ==
    /\ {TitleOf(rows, i) : i \in ids} = Range(titles)
    /\ Cardinality(ids) = Cardinality(Range(titles))

\* C14 as stated: a read of a Student while one request is updating its
\* tags (courses) from S1 to S2 shows S1 or S2, and an update that fails
\* after detaching leaves the Student with S1.
C14_AtomicUpdate ==
    [][\A t \in Threads, id \in StudentIds :
          /\ (/\ req'.op = "student_retrieve" /\ req'.id = id
              /\ resp'.status = "OK"
              /\ Updating(t, id) /\ Alone(t))
             => /\ Present(threads[t].payload.tags)
                   => \/ resp'.nested_tags = threads[t].before.tags
                      \/ ResolvedFrom(tags, resp'.nested_tags,
                                      threads[t].payload.tags[1])
                /\ Present(threads[t].payload.courses)
                   => \/ resp'.nested_courses = threads[t].before.courses
                      \/ ResolvedFrom(courses, resp'.nested_courses,
                                      threads[t].payload.courses[1])
          /\ (/\ Updating(t, id) /\ Alone(t)
              /\ threads'[t].pc = "done"
              /\ threads'[t].status = "SERVER_ERROR")
             => /\ TagsOf(id)' = threads[t].before.tags
                /\ CoursesOf(id)' = threads[t].before.courses]_vars

\* C15: a worker whose lookup found no label inserts one, also when a label
\* of that owner and title has been inserted since the lookup; so two
\* workers that both looked up the same missing title both insert.
C15_CheckThenAct ==
    [][\A t \in Threads, u \in Owners, title \in Titles :
          (/\ threads[t].pc = "create" /\ threads'[t].pc = "add"
           /\ threads[t].user = u /\ Head(threads[t].rest) = title)
          => /\ threads[t].rel = "tags"
                => Cardinality(Model_objects_get(tags', u, title))
                     = Cardinality(Model_objects_get(tags, u, title)) + 1
             /\ threads[t].rel = "courses"
                => Cardinality(Model_objects_get(courses', u, title))
                     = Cardinality(Model_objects_get(courses, u, title)) + 1]_vars

\* both workers, for the same owner and title, have inserted a tag after a
\* lookup that found none: the owner has two tags of that title
C15_Witness ==
    /\ \A t \in Threads : /\ threads[t].pc = "add"
                          /\ threads[t].rel = "tags"
                          /\ threads[t].user = threads[1].user
                          /\ Head(threads[t].rest) = Head(threads[1].rest)
    /\ threads[1].obj # threads[2].obj
    /\ \E a \in tags, b \in tags :
           /\ a.id = threads[1].obj /\ b.id = threads[2].obj
           /\ a.user = b.user /\ a.title = b.title

\* the rows of a table that user b owns
RowsOf(rows, b) == {x \in rows : x.user = b}

\* the rows of a relation table on the Students of user b
LinksOn(links, b) == {k \in links : k[1] \in OwnedStudents(b)}

\* a request of another user than b leaves the rows and association rows
\* of b as they were
FrameOf(b) ==
    /\ RowsOf(students', b) = RowsOf(students, b)
    /\ RowsOf(tags', b) = RowsOf(tags, b)
    /\ RowsOf(courses', b) = RowsOf(courses, b)
    /\ LinksOn(student_tags, b)' = LinksOn(student_tags, b)
    /\ LinksOn(student_courses, b)' = LinksOn(student_courses, b)

\* what the querysets give user b, for every choice of query parameters, is
\* as it was: the rows b's lists show, the Students b's detail requests
\* find, and the labels b's writes resolve to
ResultsOf(b) ==
    /\ \A q \in ListParams :
           StudentViewSet_get_queryset(b, q[1], q[2])'
               = StudentViewSet_get_queryset(b, q[1], q[2])
    /\ \A ao \in AssignedOnlyParams :
           /\ BaseStudentAttrViewSet_get_queryset(tags, student_tags, b, ao, TRUE)'
                  = BaseStudentAttrViewSet_get_queryset(tags, student_tags, b,
                                                        ao, TRUE)
           /\ BaseStudentAttrViewSet_get_queryset(courses, student_courses, b,
                                                  ao, TRUE)'
                  = BaseStudentAttrViewSet_get_queryset(courses, student_courses,
                                                        b, ao, TRUE)
    /\ \A t \in Titles :
           /\ Model_objects_get(tags', b, t) = Model_objects_get(tags, b, t)
           /\ Model_objects_get(courses', b, t) = Model_objects_get(courses, b, t)

\* C16 as stated: a request of user A that writes leaves every Student, Tag,
\* Course and association row of another user B unchanged, and nothing that
\* B's requests return changes with it, the ids of the rows a request of B
\* would create included.
C16_Original ==
    [][\A b \in Owners :
          (req'.op # "none" /\ req'.user # b)
          => \/ UNCHANGED db
             \/ /\ FrameOf(b)
                /\ ResultsOf(b)
                /\ next_student_id' = next_student_id
                /\ next_tag_id' = next_tag_id
                /\ next_course_id' = next_course_id]_vars

\* C16 amended: a request of user A that writes leaves every Student, Tag,
\* Course and association row of another user B unchanged, and what the
\* querysets and
\* the label lookups give B is as it was, so that B's requests return the
\* same, up to the ids given to the rows they create.
C16_OwnersIndependent ==
    [][\A b \in Owners :
          (req'.op # "none" /\ req'.user # b)
          => \/ UNCHANGED db
             \/ FrameOf(b) /\ ResultsOf(b)]_vars

\* a Student update replaced the tags of a Student by a list that created a
\* tag, while the other owner has a Student with a tag of the same title
\* and a course
C16_Witness ==
    /\ req.op = "student_update"
    /\ resp.status = "OK"
    /\ Present(req.payload.tags)
    /\ \E s \in students, l \in tags, m \in tags :
           /\ s.user # req.user
           /\ l.user = s.user /\ <<s.id, l.id>> \in student_tags
           /\ m.user = req.user /\ m.title = l.title
           /\ <<req.id, m.id>> \in student_tags

\* C17 as stated: a retrieve, update or delete of a Student, and an update
\* or delete of a Tag or Course, on an id the requester owns is never
\* answered NotFound, whatever tags, courses or assigned_only parameter the
\* request carries.
C17_NotFoundOnlyAbsentOrForeign ==
    [][LET r == req'
       IN (/\ r.op \in {"student_retrieve", "student_update", "student_destroy",
                        "tag_update", "tag_destroy",
                        "course_update", "course_destroy"}
           /\ r.id \in OwnedTargets(r))
          => resp'.status # "NOT_FOUND"]_vars

\* the rows of an association table link a Student and a label of one owner
SameOwnerLinks(links, labels) ==
    \A l \in links :
        \E s \in students, m \in labels :
            /\ s.id = l[1] /\ m.id = l[2]
            /\ s.user = m.user

\* C18: every Student-Tag and every Student-Course association row links a
\* Student and a label that exist and have the same owner, so a label is
\* assigned only through Students of its own owner.
C18_LinksWithinOwner ==
    /\ SameOwnerLinks(student_tags, tags)
    /\ SameOwnerLinks(student_courses, courses)

\* a Student was created with a tag title for which another owner already
\* had a Tag attached to a Student: the new Student got a Tag of its own
\* owner
C18_Witness ==
    /\ req.op = "student_create"
    /\ resp.status = "CREATED"
    /\ \E t \in resp.nested_tags :
           \E l \in tags :
               /\ l.user # req.user
               /\ l.title = TitleOf(tags, t)
               /\ \E x \in student_tags : x[2] = l.id

\* no two rows of a label table have the same owner and the same title
UniqueTitles(rows) ==
    \A l \in rows, m \in rows :
        (l.user = m.user /\ l.title = m.title) => l = m

\* C19: when requests are handled one at a time and no label is renamed,
\* every owner has at most one Tag and at most one Course per title, and a
\* POST on a label list route is answered MethodNotAllowed.
C19_UniqueTitlesSequential ==
    /\ UniqueTitles(tags)
    /\ UniqueTitles(courses)
    /\ resp.op \in {"tag_create", "course_create"}
       => resp.status = "METHOD_NOT_ALLOWED"

\* a Student was created with a tag title its owner already had a Tag for:
\* the one Tag is attached to both of the owner's Students
C19_Witness ==
    /\ req.op = "student_create"
    /\ resp.status = "CREATED"
    /\ \E l \in tags, s \in students :
           /\ l.user = req.user /\ s.user = req.user
           /\ l.id \in resp.nested_tags
           /\ s.id \notin Range(resp.students)
           /\ <<s.id, l.id>> \in student_tags

====
